---- MODULE Spec2Model ----
(***************************************************************************)
(* A model of app.py, the Streamlit article summarizer: the usage ledger   *)
(* kept in user_usage_log.json, the quota gate of main() and the fetch /   *)
(* summarize / record sequence that one script run (a "render") performs.  *)
(*                                                                         *)
(* Streamlit runs the script top to bottom once per render of a session.   *)
(* The button of line 107 is True only in the render its click triggered,  *)
(* so a render handles at most one Summarize action, and the renders of    *)
(* one session run one after the other.  Renders of different sessions     *)
(* interleave; they share the ledger file and the calendar.  The model     *)
(* follows script runs that the user does not interrupt.                   *)
(*                                                                         *)
(* Spec runs two sessions, SpecSolo one.  The functions are also taken     *)
(* alone, each on inputs drawn from a bounded set: SpecLedger (the ledger  *)
(* functions), SpecJson (save_usage_log and load_usage_log), SpecPipeline  *)
(* (summarize_article) and SpecFetch (fetch_article_from_url).             *)
(***************************************************************************)
EXTENDS Integers, Sequences, FiniteSets, TLC

\* ---------------------------------------------------------------- bounds
ARTICLE_CAP == 2
\* The calendar runs over the days 1..MaxDay.
MaxDay == 2
\* Completed recordUse calls (over all users and days) that the model follows.
MaxDone == 3
\* SpecLedger: the highest count of an initial ledger entry, and the calls made.
InitMaxCount == 1
MaxCalls == 3
\* SpecJson: the highest count of the ledgers saved and loaded.
BigCount == 100
\* SpecPipeline: the longest text the model answers with.
MaxText == 3
\* SpecFetch: the most paragraphs inside one element of a page.
MaxParas == 2

\* Two sessions (two browser tabs); Spec runs both, SpecSolo only session 1.
Sessions == {1, 2}
Users == {"u1", "u2"}
Days == 1..MaxDay

VARIABLES
    hasKey,     \* "GROQ_API_KEY" in st.secrets
    today,      \* date.today(), as a day number
    file,       \* user_usage_log.json: [kind, text, len]
    active,     \* the sessions that act
    uid,        \* st.session_state.user_id of each session ("" while unset)
    pc,         \* where each session's script run stands
    form,       \* whether the session's page shows the Summarize button
    usage_log,  \* main's usage_log: the ledger object of the current render
    count,      \* main's count (-1 while the render has not assigned it)
    snap,       \* the ledger as load_usage_log returned it to the render
    clicked,    \* st.button("Summarize Article") in the current render
    url,        \* main's url: "" or a URL
    article_text, \* main's article_text: "unset", "none" (None), "empty" or "text"
    result,     \* summarize_article in the current render: "unset", "ok", "raised"
    trace,      \* what the current render has done so far, in order
    done,       \* recordUse calls that returned, per user and day
    hi,         \* the highest count the file has held, per user and day
    refusedOn,  \* the (user, day) pairs for which a render was refused
    checked_day, \* check_usage_limit's today in a render that goes on to fetch
                \* (0 when the session has no such render under way)
    article_in, \* summarize_article's article_text, as a text
    llm_calls,  \* the llm.invoke calls made: [prompt, back, content] each
    bullet_points, \* summarize_article's bullet_points
    summary,    \* summarize_article's summary
    ret,        \* what summarize_article returned
    response,   \* what requests.get meets: an exception, or a status and a page
    fetched     \* what fetch_article_from_url returned

\* The state of summarize_article and of fetch_article_from_url taken alone.
fnVars == <<article_in, llm_calls, bullet_points, summary, ret, response, fetched>>

vars == <<hasKey, today, file, active, uid, pc, form, usage_log, count, snap,
          clicked, url, article_text, result, trace, done, hi, refusedOn,
          checked_day, fnVars>>

\* ------------------------------------------------------------ the ledger
\* A ledger is a dict user -> (day -> count); a key may be missing.
EmptyLog == [u \in {} |-> 0]

Put(f, k, v) == [x \in DOMAIN f \cup {k} |-> IF x = k THEN v ELSE f[x]]

\* dict.get(key, default)
DictGet(f, k, default) == IF k \in DOMAIN f THEN f[k] ELSE default

\* log.get(user_id, {}).get(day, 0)
Get(log, u, d) == DictGet(DictGet(log, u, EmptyLog), d, 0)

\* Line 61 adding up the user's counts of all days.
CheckAnyDay(user_id, log) ==
    LET user_log == DictGet(log, user_id, EmptyLog)
    IN  IF DOMAIN user_log = {} THEN 0
        ELSE LET d1 == CHOOSE d \in DOMAIN user_log : TRUE
             IN  user_log[d1] + DictGet(user_log, today, 0)

\* check_usage_limit(user_id, log): the count of today
check_usage_limit(user_id, log) ==
    LET user_log == DictGet(log, user_id, EmptyLog)
    IN  DictGet(user_log, today, 0)

\* Lines 64-67 counting a use twice.
IncBy2(user_id, log) ==
    LET log1 == IF user_id \notin DOMAIN log THEN Put(log, user_id, EmptyLog) ELSE log
    IN  Put(log1, user_id, Put(log1[user_id], today, DictGet(log1[user_id], today, 0) + 2))

\* Lines 64-67 with the date read once, when the script was first loaded.
IncFirstDay(user_id, log) ==
    LET log1 == IF user_id \notin DOMAIN log THEN Put(log, user_id, EmptyLog) ELSE log
    IN  Put(log1, user_id, Put(log1[user_id], 1, DictGet(log1[user_id], 1, 0) + 1))

\* The in-memory part of increment_usage(user_id, log): lines 64-67.
increment(user_id, log) ==
    LET log1 == IF user_id \notin DOMAIN log THEN Put(log, user_id, EmptyLog) ELSE log
    IN  Put(log1, user_id, Put(log1[user_id], today, DictGet(log1[user_id], today, 0) + 1))

\* ---------------------------------------------------------- the ledger file
RECURSIVE SumOver(_, _)
SumOver(S, f) ==
    IF S = {} THEN 0
    ELSE LET x == CHOOSE y \in S : TRUE IN f[x] + SumOver(S \ {x}, f)

\* json.dump writes a count as its decimal digits; json.load reads the digits
\* back into an int.
RECURSIVE Decimal(_)
Decimal(n) == IF n < 10 THEN <<n>> ELSE Decimal(n \div 10) \o <<n % 10>>

RECURSIVE Number(_)
Number(ds) ==
    IF Len(ds) = 1 THEN ds[1]
    ELSE 10 * Number(SubSeq(ds, 1, Len(ds) - 1)) + ds[Len(ds)]

Digits(n) == Len(Decimal(n))

\* The keys of a dict in the order the dict lists them.
RECURSIVE Keys(_)
Keys(S) ==
    IF S = {} THEN <<>>
    ELSE LET k == CHOOSE x \in S : TRUE IN <<k>> \o Keys(S \ {k})

\* json.dump(log, f): the text of the file, as the members it lists one after
\* the other: <<user, <<day, digits>>, ...>>, ...  (The keys are strings in the
\* program and are written as they are; a day number of the model stands for
\* the ISO date string.)
DumpDays(d) ==
    LET ks == Keys(DOMAIN d)
    IN  [i \in 1..Len(ks) |-> <<ks[i], Decimal(d[ks[i]])>>]

json_dump(log) ==
    LET ks == Keys(DOMAIN log)
    IN  [i \in 1..Len(ks) |-> <<ks[i], DumpDays(log[ks[i]])>>]

\* json.load(f): the members read into dicts, a later member over an earlier
\* one of the same key.
LastOf(ms, k) == ms[CHOOSE i \in DOMAIN ms :
                        ms[i][1] = k /\ \A j \in DOMAIN ms : ms[j][1] = k => j <= i][2]

LoadDays(ms) == [k \in {ms[i][1] : i \in DOMAIN ms} |-> Number(LastOf(ms, k))]

json_load(ms) == [k \in {ms[i][1] : i \in DOMAIN ms} |-> LoadDays(LastOf(ms, k))]

\* The length of json.dumps(d) for d: day -> count, a day printed as the ten
\* characters of an ISO date: {"2024-01-01": 1, "2024-01-02": 2}
InnerLen(d) ==
    2 + SumOver(DOMAIN d, [k \in DOMAIN d |-> 14 + Digits(d[k])])
      + (IF DOMAIN d = {} THEN 0 ELSE 2 * (Cardinality(DOMAIN d) - 1))

\* The length of the text json.dump(log, f) writes.
TextLen(log) ==
    2 + SumOver(DOMAIN log, [u \in DOMAIN log |-> Len(u) + 4 + InnerLen(log[u])])
      + (IF DOMAIN log = {} THEN 0 ELSE 2 * (Cardinality(DOMAIN log) - 1))

Absent == [kind |-> "absent", text |-> <<>>, len |-> 0]
Truncated == [kind |-> "empty", text |-> <<>>, len |-> 0]
JsonFile(log) == [kind |-> "json", text |-> json_dump(log), len |-> TextLen(log)]

\* The file opened without "w" cutting it ("r+").
OpenKeeps(f) == f

\* open(USAGE_LOG, "w"): the file is created or cut to length 0.
OpenForWrite(f) == Truncated

\* json.dump and the close at the end of the with block: the text goes to offset
\* 0 of the file as it is then.  What another writer put there since this
\* writer's open stays past the end of this text: the file is this ledger when
\* the text covers it, and no JSON document otherwise.
WriteText(f, log) ==
    IF TextLen(log) >= f.len
    THEN JsonFile(log)
    ELSE [kind |-> "corrupt", text |-> <<>>, len |-> f.len]

\* save_usage_log left out: the file stays as it was.
SaveSkipped(f, log) == f

\* save_usage_log(log) with no other writer in between.
save_usage_log(f, log) == WriteText(OpenForWrite(f), log)

\* load_usage_log(): {} when the file does not exist, else json.load, which
\* raises on an empty file and on a text that is no JSON document.
LoadRaises(f) == f.kind \in {"empty", "corrupt"}
load_usage_log(f) == IF f.kind = "json" THEN json_load(f.text) ELSE EmptyLog

\* ------------------------------------------------------------------ ghosts
ZeroCounts == [u \in Users |-> [d \in Days |-> 0]]

Bump(c, u, d) == [c EXCEPT ![u][d] = @ + 1]

Total(c) == SumOver(Users \X Days, [p \in Users \X Days |-> c[p[1]][p[2]]])

InFlight == Cardinality({s \in Sessions : pc[s] # "idle"})

Max(a, b) == IF a >= b THEN a ELSE b

\* The highest counts the file has held, after the file became f.
Seen(f) ==
    IF f.kind = "json"
    THEN [u \in Users |-> [d \in Days |-> Max(hi[u][d], Get(load_usage_log(f), u, d))]]
    ELSE hi

\* The day a render's recordUse credited: the entry its ledger gained.
CreditedDay(s) ==
    CHOOSE d \in Days : Get(usage_log[s], uid[s], d) # Get(snap[s], uid[s], d)

\* ------------------------------------------------------------- return values
\* fetch_article_from_url returns None or a str.
NotCalled == [is |-> "unset", text |-> <<>>]
None == [is |-> "None", text |-> <<>>]
Str(t) == [is |-> "str", text |-> t]

\* summarize_article returns a dict of two texts.
NoResult == [set |-> FALSE, bullet_points |-> <<>>, summary |-> <<>>]

NoResponse == [kind |-> "unset", status |-> 0, doc |-> <<>>]

\* Neither function has been called.
FnIdle ==
    /\ article_in = <<>>
    /\ llm_calls = <<>>
    /\ bullet_points = <<>>
    /\ summary = <<>>
    /\ ret = NoResult
    /\ response = NoResponse
    /\ fetched = NotCalled

\* ------------------------------------------------------------------- Init
InitWith(sessions) ==
    /\ hasKey \in BOOLEAN
    /\ today = 1
    /\ file = Absent
    /\ active = sessions
    /\ uid = [s \in Sessions |-> ""]
    /\ pc = [s \in Sessions |-> "idle"]
    /\ form = [s \in Sessions |-> FALSE]
    /\ usage_log = [s \in Sessions |-> EmptyLog]
    /\ count = [s \in Sessions |-> -1]
    /\ snap = [s \in Sessions |-> EmptyLog]
    /\ clicked = [s \in Sessions |-> FALSE]
    /\ url = [s \in Sessions |-> ""]
    /\ article_text = [s \in Sessions |-> "unset"]
    /\ result = [s \in Sessions |-> "unset"]
    /\ trace = [s \in Sessions |-> <<>>]
    /\ done = ZeroCounts
    /\ hi = ZeroCounts
    /\ refusedOn = {}
    /\ checked_day = [s \in Sessions |-> 0]
    /\ FnIdle

Init == InitWith(Sessions)

\* ------------------------------------------------- main(): start of a render
\* str(st.user.id) of a session.  The users are interchangeable: the first
\* session's is called u1, the second session is the same user's or another's.
UserOf(s) == IF s = 1 THEN {"u1"} ELSE Users

\* get_user_id(): st.session_state.user_id, set from st.user.id the first time.
get_user_id(s) == IF uid[s] = "" THEN UserOf(s) ELSE {uid[s]}

\* Line 101 with > for >=.
AtCapStrict(c) == c > ARTICLE_CAP

\* Line 101: if count >= ARTICLE_CAP
AtCap(c) == c >= ARTICLE_CAP

\* A new script run: the locals of the one before are gone.
Starts(s, button, text, events) ==
    /\ pc[s] = "idle"
    /\ clicked' = [clicked EXCEPT ![s] = button]
    /\ url' = [url EXCEPT ![s] = text]
    /\ article_text' = [article_text EXCEPT ![s] = "unset"]
    /\ result' = [result EXCEPT ![s] = "unset"]
    /\ trace' = [trace EXCEPT ![s] = events]
    /\ UNCHANGED <<hasKey, today, file, active, done, hi, fnVars>>

\* A render that ends before line 98 or in it.
EndsEarly(s) ==
    /\ pc' = [pc EXCEPT ![s] = "idle"]
    /\ form' = [form EXCEPT ![s] = FALSE]
    /\ usage_log' = [usage_log EXCEPT ![s] = EmptyLog]
    /\ snap' = [snap EXCEPT ![s] = EmptyLog]
    /\ count' = [count EXCEPT ![s] = -1]
    /\ checked_day' = [checked_day EXCEPT ![s] = 0]
    /\ UNCHANGED refusedOn

\* Lines 97-99: the user id, the ledger and today's count of the render.
Loads(s, u) ==
    /\ hasKey
    /\ ~LoadRaises(file)
    /\ uid' = [uid EXCEPT ![s] = u]
    /\ usage_log' = [usage_log EXCEPT ![s] = load_usage_log(file)]
    /\ snap' = [snap EXCEPT ![s] = usage_log'[s]]
    /\ count' = [count EXCEPT ![s] = check_usage_limit(u, usage_log'[s])]

\* Lines 16-17 without the st.stop() of line 18: the script goes on into main.
RenderNoKeyGoesOn(s) ==
    /\ ~hasKey
    /\ Starts(s, FALSE, "", <<"err_key">>)
    /\ \E u \in get_user_id(s) :
        /\ uid' = [uid EXCEPT ![s] = u]
        /\ count' = [count EXCEPT ![s] = check_usage_limit(u, load_usage_log(file))]
    /\ checked_day' = [checked_day EXCEPT ![s] = 0]
    /\ usage_log' = [usage_log EXCEPT ![s] = load_usage_log(file)]
    /\ snap' = [snap EXCEPT ![s] = load_usage_log(file)]
    /\ pc' = [pc EXCEPT ![s] = "idle"]
    /\ form' = [form EXCEPT ![s] = TRUE]
    /\ UNCHANGED refusedOn

\* Lines 16-18: the key is missing, st.error and st.stop().
RenderNoKey(s) ==
    /\ ~hasKey
    /\ Starts(s, FALSE, "", <<"err_key">>)
    /\ EndsEarly(s)
    /\ UNCHANGED uid

\* Line 98 raises: json.load on an empty or broken file.
RenderLoadFail(s) ==
    /\ hasKey
    /\ LoadRaises(file)
    /\ Starts(s, FALSE, "", <<"exc_load">>)
    /\ \E u \in get_user_id(s) : uid' = [uid EXCEPT ![s] = u]
    /\ EndsEarly(s)

\* Lines 101-103: the cap is reached, st.error and st.stop().
RenderRefuse(s) ==
    /\ Starts(s, FALSE, "", <<"err_cap">>)
    /\ \E u \in get_user_id(s) :
        /\ Loads(s, u)
        /\ AtCap(count'[s])
        /\ refusedOn' = refusedOn \cup {<<u, today>>}
    /\ pc' = [pc EXCEPT ![s] = "idle"]
    /\ form' = [form EXCEPT ![s] = FALSE]
    /\ checked_day' = [checked_day EXCEPT ![s] = 0]

\* Lines 105-107 past the gate: the form is shown.
PastGate(s) ==
    /\ \E u \in get_user_id(s) :
        /\ Loads(s, u)
        /\ ~AtCap(count'[s])
    /\ form' = [form EXCEPT ![s] = TRUE]
    /\ UNCHANGED refusedOn

\* Line 107 with the button not clicked (a rerun, an edit of the URL field).
\* The text of the field is read only after a click (line 108) and is left out.
RenderIdle(s) ==
    /\ Starts(s, FALSE, "", <<>>)
    /\ PastGate(s)
    /\ pc' = [pc EXCEPT ![s] = "idle"]
    /\ checked_day' = [checked_day EXCEPT ![s] = 0]

\* The button clicked with the URL field empty, and no check of line 108.
ClickEmptyUrlFetches(s) ==
    /\ form[s]
    /\ Starts(s, TRUE, "", <<>>)
    /\ PastGate(s)
    /\ pc' = [pc EXCEPT ![s] = "fetch"]
    /\ checked_day' = [checked_day EXCEPT ![s] = today]

\* Lines 107-110: the button clicked with the URL field empty.
ClickEmptyUrl(s) ==
    /\ form[s]
    /\ Starts(s, TRUE, "", <<"warn">>)
    /\ PastGate(s)
    /\ pc' = [pc EXCEPT ![s] = "idle"]
    /\ checked_day' = [checked_day EXCEPT ![s] = 0]

\* Lines 107-112: the button clicked with a URL: the render goes on to fetch.
ClickSummarize(s) ==
    /\ form[s]
    /\ Total(done) + InFlight < MaxDone
    /\ Starts(s, TRUE, "url", <<>>)
    /\ PastGate(s)
    /\ pc' = [pc EXCEPT ![s] = "fetch"]
    /\ checked_day' = [checked_day EXCEPT ![s] = today]

\* ------------------------------------------- main(): the Summarize action
Did(s, events) == trace' = [trace EXCEPT ![s] = trace[s] \o events]

Keeps == UNCHANGED <<hasKey, today, active, uid, form, count, snap, clicked, url,
                     refusedOn, fnVars>>

Ends(s) ==
    /\ pc' = [pc EXCEPT ![s] = "idle"]
    /\ checked_day' = [checked_day EXCEPT ![s] = 0]
    /\ Keeps

GoesTo(s, where) ==
    /\ pc' = [pc EXCEPT ![s] = where]
    /\ UNCHANGED checked_day
    /\ Keeps

\* Lines 113-116 with the ledger counted before the text is looked at.
FetchFailCounted(s) ==
    /\ pc[s] = "fetch"
    /\ \E r \in {"none", "empty"} : article_text' = [article_text EXCEPT ![s] = r]
    /\ Did(s, <<"get", "err_fetch">>)
    /\ usage_log' = [usage_log EXCEPT ![s] = increment(uid[s], usage_log[s])]
    /\ Ends(s)
    /\ UNCHANGED <<file, result, done, hi>>

\* Lines 113-116: fetch_article_from_url gave None (an exception, no paragraph)
\* or a text that is empty once stripped: st.error and return.
FetchFail(s) ==
    /\ pc[s] = "fetch"
    /\ \E r \in {"none", "empty"} : article_text' = [article_text EXCEPT ![s] = r]
    /\ Did(s, <<"get", "err_fetch">>)
    /\ Ends(s)
    /\ UNCHANGED <<file, usage_log, result, done, hi>>

\* Line 113: fetch_article_from_url gave a text.
FetchOk(s) ==
    /\ pc[s] = "fetch"
    /\ article_text' = [article_text EXCEPT ![s] = "text"]
    /\ Did(s, <<"get">>)
    /\ GoesTo(s, "llm1")
    /\ UNCHANGED <<file, usage_log, result, done, hi>>

\* Line 78: llm.invoke raises; nothing in summarize_article or main catches it.
Llm1Raise(s) ==
    /\ pc[s] = "llm1"
    /\ result' = [result EXCEPT ![s] = "raised"]
    /\ Did(s, <<"llm1", "exc">>)
    /\ Ends(s)
    /\ UNCHANGED <<file, usage_log, article_text, done, hi>>

\* Line 78: llm.invoke returns (empty content is taken like any other).
Llm1Ok(s) ==
    /\ pc[s] = "llm1"
    /\ Did(s, <<"llm1">>)
    /\ GoesTo(s, "llm2")
    /\ UNCHANGED <<file, usage_log, article_text, result, done, hi>>

\* Line 86 raising after the bullet points of stage 1 were put on the page.
Llm2RaiseAfterShow(s) ==
    /\ pc[s] = "llm2"
    /\ result' = [result EXCEPT ![s] = "raised"]
    /\ Did(s, <<"bullets", "llm2", "exc">>)
    /\ Ends(s)
    /\ UNCHANGED <<file, usage_log, article_text, done, hi>>

\* Line 86: llm.invoke raises.
Llm2Raise(s) ==
    /\ pc[s] = "llm2"
    /\ result' = [result EXCEPT ![s] = "raised"]
    /\ Did(s, <<"llm2", "exc">>)
    /\ Ends(s)
    /\ UNCHANGED <<file, usage_log, article_text, done, hi>>

\* Line 86: llm.invoke returns; summarize_article returns the two texts.
Llm2Ok(s) ==
    /\ pc[s] = "llm2"
    /\ result' = [result EXCEPT ![s] = "ok"]
    /\ Did(s, <<"llm2">>)
    /\ GoesTo(s, "record")
    /\ UNCHANGED <<file, usage_log, article_text, done, hi>>

\* Lines 121-125: the summary, then the bullet points.
Shown == <<"summary", "bullets">>

\* st.success shown before the save.
ConfirmedEarly == <<"success", "write">>

\* Lines 127-128: save_usage_log returns, then st.success.
Confirmed == <<"write", "success">>

\* Lines 121-127 up to the open of save_usage_log: the result is displayed,
\* the ledger object gains one for (user, today), the file is cut to length 0.
RecordOpen(s) ==
    /\ pc[s] = "record"
    /\ Did(s, Shown \o <<"inc", "open">>)
    /\ usage_log' = [usage_log EXCEPT ![s] = increment(uid[s], usage_log[s])]
    /\ file' = OpenForWrite(file)
    /\ GoesTo(s, "write")
    /\ UNCHANGED <<article_text, result, done, hi>>

\* The same with open raising (no permission, a read-only volume).
RecordOpenFail(s) ==
    /\ pc[s] = "record"
    /\ Did(s, Shown \o <<"inc", "exc">>)
    /\ usage_log' = [usage_log EXCEPT ![s] = increment(uid[s], usage_log[s])]
    /\ Ends(s)
    /\ UNCHANGED <<file, article_text, result, done, hi>>

\* Lines 51 and 128: the text is written, the file closed, increment_usage
\* returns and st.success is shown.
WriteOk(s) ==
    /\ pc[s] = "write"
    /\ Did(s, Confirmed)
    /\ file' = WriteText(file, usage_log[s])
    /\ done' = Bump(done, uid[s], CreditedDay(s))
    /\ hi' = Seen(file')
    /\ Ends(s)
    /\ UNCHANGED <<usage_log, article_text, result>>

\* Line 51 raising with the exception swallowed: st.success is shown.
WriteFailSilent(s) ==
    /\ pc[s] = "write"
    /\ Did(s, <<"success">>)
    /\ Ends(s)
    /\ UNCHANGED <<file, usage_log, article_text, result, done, hi>>

\* Line 51 raises (the volume is full): the file stays as the open left it.
WriteFail(s) ==
    /\ pc[s] = "write"
    /\ Did(s, <<"exc">>)
    /\ Ends(s)
    /\ UNCHANGED <<file, usage_log, article_text, result, done, hi>>

\* date.today() moves to the next day.
Tick ==
    /\ today < MaxDay
    /\ today' = today + 1
    /\ UNCHANGED <<hasKey, file, active, uid, pc, form, usage_log, count, snap,
                   clicked, url, article_text, result, trace, done, hi, refusedOn,
                   checked_day, fnVars>>

Next ==
    \/ \E s \in active : RenderNoKey(s)
    \/ \E s \in active : RenderLoadFail(s)
    \/ \E s \in active : RenderRefuse(s)
    \/ \E s \in active : RenderIdle(s)
    \/ \E s \in active : ClickEmptyUrl(s)
    \/ \E s \in active : ClickSummarize(s)
    \/ \E s \in active : FetchFail(s)
    \/ \E s \in active : FetchOk(s)
    \/ \E s \in active : Llm1Raise(s)
    \/ \E s \in active : Llm1Ok(s)
    \/ \E s \in active : Llm2Raise(s)
    \/ \E s \in active : Llm2Ok(s)
    \/ \E s \in active : RecordOpen(s)
    \/ \E s \in active : RecordOpenFail(s)
    \/ \E s \in active : WriteOk(s)
    \/ \E s \in active : WriteFail(s)
    \/ Tick

Spec == Init /\ [][Next]_vars

\* One session acting alone.  A script run that has started runs on, and the
\* fairness below is that of a user who keeps using the page and asks for a
\* summary whenever it lets them, with every fetch, model call and write
\* succeeding when it can.
InitSolo == InitWith({1})

SoloFairness ==
    /\ WF_vars(Next)
    /\ SF_vars(ClickSummarize(1))
    /\ SF_vars(FetchOk(1))
    /\ SF_vars(Llm1Ok(1))
    /\ SF_vars(Llm2Ok(1))
    /\ SF_vars(RecordOpen(1))
    /\ SF_vars(WriteOk(1))

SpecSolo == InitSolo /\ [][Next]_vars /\ SoloFairness

\* ------------------------------------------------ the ledger functions alone
\* The ledgers a file can hold on day t: users with at least one day each, the
\* days up to t, the counts from 1.
DayCounts(t) == UNION {[D -> 1..InitMaxCount] : D \in SUBSET (1..t) \ {{}}}

Ledgers(t) == UNION {[U -> DayCounts(t)] : U \in SUBSET Users}

\* One caller of load_usage_log, increment_usage and check_usage_limit: the
\* ledger object is usage_log[1], snap[1] is the ledger as last loaded and done
\* counts the increment_usage calls made.
InitLedger ==
    /\ hasKey = TRUE
    /\ today \in Days
    /\ file \in {Absent} \cup {JsonFile(l) : l \in Ledgers(today)}
    /\ active = {1}
    /\ uid = [s \in Sessions |-> ""]
    /\ pc = [s \in Sessions |-> "idle"]
    /\ form = [s \in Sessions |-> FALSE]
    /\ usage_log = [s \in Sessions |-> IF s = 1 THEN load_usage_log(file) ELSE EmptyLog]
    /\ count = [s \in Sessions |-> -1]
    /\ snap = [s \in Sessions |-> IF s = 1 THEN load_usage_log(file) ELSE EmptyLog]
    /\ clicked = [s \in Sessions |-> FALSE]
    /\ url = [s \in Sessions |-> ""]
    /\ article_text = [s \in Sessions |-> "unset"]
    /\ result = [s \in Sessions |-> "unset"]
    /\ trace = [s \in Sessions |-> <<>>]
    /\ done = ZeroCounts
    /\ hi = ZeroCounts
    /\ refusedOn = {}
    /\ checked_day = [s \in Sessions |-> 0]
    /\ FnIdle

\* increment_usage(user_id, log), lines 63-68: the count, then the save.
LedgerRecord(u) ==
    /\ Total(done) < MaxCalls
    /\ usage_log' = [usage_log EXCEPT ![1] = increment(u, usage_log[1])]
    /\ file' = save_usage_log(file, usage_log'[1])
    /\ done' = Bump(done, u, today)
    /\ UNCHANGED <<hasKey, today, active, uid, pc, form, count, snap, clicked, url,
                   article_text, result, trace, hi, refusedOn, checked_day, fnVars>>

\* usage_log = load_usage_log(), line 98.
LedgerLoad ==
    /\ ~LoadRaises(file)
    /\ usage_log' = [usage_log EXCEPT ![1] = load_usage_log(file)]
    /\ snap' = [snap EXCEPT ![1] = load_usage_log(file)]
    /\ UNCHANGED <<hasKey, today, file, active, uid, pc, form, count, clicked, url,
                   article_text, result, trace, done, hi, refusedOn, checked_day,
                   fnVars>>

\* count = check_usage_limit(user_id, usage_log), line 99, for any user.
LedgerCheck(u) ==
    /\ uid' = [uid EXCEPT ![1] = u]
    /\ count' = [count EXCEPT ![1] = check_usage_limit(u, usage_log[1])]
    /\ UNCHANGED <<hasKey, today, file, active, pc, form, usage_log, snap, clicked,
                   url, article_text, result, trace, done, hi, refusedOn,
                   checked_day, fnVars>>

NextLedger ==
    \/ \E u \in Users : LedgerRecord(u)
    \/ \E u \in Users : LedgerCheck(u)
    \/ LedgerLoad
    \/ Tick

SpecLedger == InitLedger /\ [][NextLedger]_vars

\* ------------------------------------------- save_usage_log, load_usage_log
\* The ledgers saved: any users, each with any days (none too), the counts
\* of one, two and three digits.
JsonCounts == {0, 9, 10, BigCount}

JsonLedgers ==
    UNION {[U -> UNION {[D -> JsonCounts] : D \in SUBSET Days}] : U \in SUBSET Users}

\* The file before the save: none, or one with the longest of the texts.
LongLedger == [u \in Users |-> [d \in Days |-> BigCount]]

\* usage_log[1] is the ledger saved, snap[1] what load_usage_log returned.
InitJson ==
    /\ hasKey = TRUE
    /\ today = 1
    /\ file \in {Absent, JsonFile(LongLedger)}
    /\ active = {1}
    /\ uid = [s \in Sessions |-> ""]
    /\ pc = [s \in Sessions |-> "idle"]
    /\ form = [s \in Sessions |-> FALSE]
    /\ usage_log \in {[s \in Sessions |-> IF s = 1 THEN l ELSE EmptyLog] : l \in JsonLedgers}
    /\ count = [s \in Sessions |-> -1]
    /\ snap = [s \in Sessions |-> EmptyLog]
    /\ clicked = [s \in Sessions |-> FALSE]
    /\ url = [s \in Sessions |-> ""]
    /\ article_text = [s \in Sessions |-> "unset"]
    /\ result = [s \in Sessions |-> "unset"]
    /\ trace = [s \in Sessions |-> <<>>]
    /\ done = ZeroCounts
    /\ hi = ZeroCounts
    /\ refusedOn = {}
    /\ checked_day = [s \in Sessions |-> 0]
    /\ FnIdle

\* save_usage_log(log), lines 49-51.
JsonSave ==
    /\ pc[1] = "idle"
    /\ file' = save_usage_log(file, usage_log[1])
    /\ pc' = [pc EXCEPT ![1] = "saved"]
    /\ UNCHANGED <<hasKey, today, active, uid, form, usage_log, count, snap, clicked,
                   url, article_text, result, trace, done, hi, refusedOn,
                   checked_day, fnVars>>

\* load_usage_log(), lines 43-47, where json.load does not raise.
JsonLoad ==
    /\ pc[1] = "saved"
    /\ ~LoadRaises(file)
    /\ snap' = [snap EXCEPT ![1] = load_usage_log(file)]
    /\ pc' = [pc EXCEPT ![1] = "loaded"]
    /\ UNCHANGED <<hasKey, today, file, active, uid, form, usage_log, count, clicked,
                   url, article_text, result, trace, done, hi, refusedOn,
                   checked_day, fnVars>>

NextJson == JsonSave \/ JsonLoad

SpecJson == InitJson /\ [][NextJson]_vars

\* ---------------------------------------------------------- summarize_article
\* A text is a sequence of characters; " " and "\n" are the whitespace.
WS == {" ", "\n"}

\* str.strip(): the whitespace at the start and at the end removed.
RECURSIVE lstrip(_)
lstrip(t) == IF Len(t) > 0 /\ t[1] \in WS THEN lstrip(Tail(t)) ELSE t

RECURSIVE rstrip(_)
rstrip(t) ==
    IF Len(t) > 0 /\ t[Len(t)] \in WS THEN rstrip(SubSeq(t, 1, Len(t) - 1)) ELSE t

strip(t) == rstrip(lstrip(t))

\* Lines 72-77 and 80-85: the f-strings.  The fixed words of a template are one
\* character of the model each; the text goes between, whitespace around it.
research_prompt(text) == <<"\n", "research:", "\n">> \o strip(text) \o <<"\n", " ">>

summarizer_prompt(bullets) == <<"\n", "summarize:", "\n">> \o bullets \o <<"\n", " ">>

\* The texts the model answers with: "x" for any character that is no
\* whitespace.
RECURSIVE TextsOf(_)
TextsOf(n) ==
    IF n = 0 THEN {<<>>}
    ELSE LET shorter == TextsOf(n - 1)
         IN  shorter \cup {Append(t, c) : t \in shorter, c \in {" ", "x"}}

Answers == TextsOf(MaxText)

Articles == {<<"x">>, <<" ", "x", "\n">>}

\* A call of summarize_article(article_text, llm); pc[1] is where it stands.
InitPipeline ==
    /\ hasKey = TRUE
    /\ today = 1
    /\ file = Absent
    /\ active = {1}
    /\ uid = [s \in Sessions |-> ""]
    /\ pc = [s \in Sessions |-> "idle"]
    /\ form = [s \in Sessions |-> FALSE]
    /\ usage_log = [s \in Sessions |-> EmptyLog]
    /\ count = [s \in Sessions |-> -1]
    /\ snap = [s \in Sessions |-> EmptyLog]
    /\ clicked = [s \in Sessions |-> FALSE]
    /\ url = [s \in Sessions |-> ""]
    /\ article_text = [s \in Sessions |-> "unset"]
    /\ result = [s \in Sessions |-> "unset"]
    /\ trace = [s \in Sessions |-> <<>>]
    /\ done = ZeroCounts
    /\ hi = ZeroCounts
    /\ refusedOn = {}
    /\ checked_day = [s \in Sessions |-> 0]
    /\ article_in \in Articles
    /\ llm_calls = <<>>
    /\ bullet_points = <<>>
    /\ summary = <<>>
    /\ ret = NoResult
    /\ response = NoResponse
    /\ fetched = NotCalled

PipelineKeeps ==
    UNCHANGED <<hasKey, today, file, active, uid, form, usage_log, count, snap,
                clicked, url, article_text, result, trace, done, hi, refusedOn,
                checked_day, article_in, response, fetched>>

Invoke(prompt) == llm_calls' = Append(llm_calls, [prompt |-> prompt, back |-> FALSE, content |-> <<>>])

Returns(content) ==
    llm_calls' = [llm_calls EXCEPT ![Len(llm_calls)] = [@ EXCEPT !.back = TRUE, !.content = content]]

\* Lines 72-78: llm.invoke(research_prompt) is called.
Stage1Call ==
    /\ pc[1] = "idle"
    /\ Invoke(research_prompt(article_in))
    /\ pc' = [pc EXCEPT ![1] = "wait1"]
    /\ UNCHANGED <<bullet_points, summary, ret>>
    /\ PipelineKeeps

\* Line 78 with .lstrip() for .strip().
Stage1ReturnHalfTrimmed(content) ==
    /\ pc[1] = "wait1"
    /\ Returns(content)
    /\ bullet_points' = lstrip(content)
    /\ pc' = [pc EXCEPT ![1] = "stage2"]
    /\ UNCHANGED <<summary, ret>>
    /\ PipelineKeeps

\* Line 78: the call returns; bullet_points is its content, stripped.
Stage1Return(content) ==
    /\ pc[1] = "wait1"
    /\ Returns(content)
    /\ bullet_points' = strip(content)
    /\ pc' = [pc EXCEPT ![1] = "stage2"]
    /\ UNCHANGED <<summary, ret>>
    /\ PipelineKeeps

\* Line 78: the call raises, and so does summarize_article.
Stage1Raise ==
    /\ pc[1] = "wait1"
    /\ pc' = [pc EXCEPT ![1] = "raised"]
    /\ UNCHANGED <<llm_calls, bullet_points, summary, ret>>
    /\ PipelineKeeps

\* Lines 80-86: llm.invoke(summarizer_prompt) is called.
Stage2Call ==
    /\ pc[1] = "stage2"
    /\ Invoke(summarizer_prompt(bullet_points))
    /\ pc' = [pc EXCEPT ![1] = "wait2"]
    /\ UNCHANGED <<bullet_points, summary, ret>>
    /\ PipelineKeeps

\* Lines 86-92: the call returns; summary is its content, stripped, and
\* summarize_article returns the two texts.
Stage2Return(content) ==
    /\ pc[1] = "wait2"
    /\ Returns(content)
    /\ summary' = strip(content)
    /\ ret' = [set |-> TRUE, bullet_points |-> bullet_points, summary |-> summary']
    /\ pc' = [pc EXCEPT ![1] = "returned"]
    /\ UNCHANGED bullet_points
    /\ PipelineKeeps

\* Line 86: the call raises.
Stage2Raise ==
    /\ pc[1] = "wait2"
    /\ pc' = [pc EXCEPT ![1] = "raised"]
    /\ UNCHANGED <<llm_calls, bullet_points, summary, ret>>
    /\ PipelineKeeps

NextPipeline ==
    \/ Stage1Call
    \/ \E content \in Answers : Stage1Return(content)
    \/ Stage1Raise
    \/ Stage2Call
    \/ \E content \in Answers : Stage2Return(content)
    \/ Stage2Raise

SpecPipeline == InitPipeline /\ [][NextPipeline]_vars

\* ----------------------------------------------------- fetch_article_from_url
\* A page is up to two elements one after the other: an <article>, a <main>
\* or a <div> with the <p> elements inside it, or a <p> on its own; ps are
\* the texts (get_text()) of the <p> elements, in document order.
ParaTexts == {<<"A">>, <<" ", "B", " ">>, <<" ">>}

ParaLists == UNION {[1..n -> ParaTexts] : n \in 0..MaxParas}

Elements ==
    {[tag |-> t, ps |-> l] : t \in {"article", "main", "div"}, l \in ParaLists}
        \cup {[tag |-> "p", ps |-> <<x>>] : x \in ParaTexts}

Pages == {<<>>} \cup {<<b>> : b \in Elements} \cup {<<b, c>> : b \in Elements, c \in Elements}

\* requests.get raises (no connection, a timeout), or there is a final
\* response with a status and a page.
Statuses == {200, 300, 404, 503}

Responses ==
    {[kind |-> "error", status |-> 0, doc |-> <<>>]}
        \cup {[kind |-> "http", status |-> st, doc |-> d] : st \in Statuses, d \in Pages}

\* response.raise_for_status() raises for the statuses 400 to 599.
raise_for_status(status) == status >= 400 /\ status < 600

Has(doc, tag) == \E i \in DOMAIN doc : doc[i].tag = tag

\* soup.find(tag): the first element of that tag.
find(doc, tag) ==
    doc[CHOOSE i \in DOMAIN doc :
            doc[i].tag = tag /\ \A j \in 1..(i - 1) : doc[j].tag # tag]

\* soup.find_all('p'): every <p> of the page, in document order.
RECURSIVE find_all_p(_)
find_all_p(doc) ==
    IF Len(doc) = 0 THEN <<>> ELSE Head(doc).ps \o find_all_p(Tail(doc))

\* Line 34 looking through the whole page whatever line 33 found.
ParagraphsOfPage(doc) == find_all_p(doc)

\* Lines 33-34: main_content and paragraphs.
paragraphs(doc) ==
    IF Has(doc, "article") THEN find(doc, "article").ps
    ELSE IF Has(doc, "main") THEN find(doc, "main").ps
    ELSE find_all_p(doc)

\* "\n".join(...)
RECURSIVE join(_)
join(ps) ==
    IF Len(ps) = 0 THEN <<>>
    ELSE IF Len(ps) = 1 THEN ps[1]
    ELSE ps[1] \o <<"\n">> \o join(Tail(ps))

\* Lines 28-40.
fetch_article_from_url(resp) ==
    IF resp.kind = "error" \/ raise_for_status(resp.status) THEN None
    ELSE LET ps == paragraphs(resp.doc)
         IN  IF Len(ps) = 0 THEN None ELSE Str(strip(join(ps)))

\* A call of fetch_article_from_url(url): response is what the URL gives.
InitFetch ==
    /\ hasKey = TRUE
    /\ today = 1
    /\ file = Absent
    /\ active = {1}
    /\ uid = [s \in Sessions |-> ""]
    /\ pc = [s \in Sessions |-> "idle"]
    /\ form = [s \in Sessions |-> FALSE]
    /\ usage_log = [s \in Sessions |-> EmptyLog]
    /\ count = [s \in Sessions |-> -1]
    /\ snap = [s \in Sessions |-> EmptyLog]
    /\ clicked = [s \in Sessions |-> FALSE]
    /\ url = [s \in Sessions |-> ""]
    /\ article_text = [s \in Sessions |-> "unset"]
    /\ result = [s \in Sessions |-> "unset"]
    /\ trace = [s \in Sessions |-> <<>>]
    /\ done = ZeroCounts
    /\ hi = ZeroCounts
    /\ refusedOn = {}
    /\ checked_day = [s \in Sessions |-> 0]
    /\ article_in = <<>>
    /\ llm_calls = <<>>
    /\ bullet_points = <<>>
    /\ summary = <<>>
    /\ ret = NoResult
    /\ response \in Responses
    /\ fetched = NotCalled

FetchCall ==
    /\ pc[1] = "idle"
    /\ fetched' = fetch_article_from_url(response)
    /\ pc' = [pc EXCEPT ![1] = "fetched"]
    /\ UNCHANGED <<hasKey, today, file, active, uid, form, usage_log, count, snap,
                   clicked, url, article_text, result, trace, done, hi, refusedOn,
                   checked_day, article_in, llm_calls, bullet_points, summary, ret,
                   response>>

NextFetch == FetchCall

SpecFetch == InitFetch /\ [][NextFetch]_vars

\* ------------------------------------------------------------------ claims
Events(s) == {trace[s][i] : i \in 1..Len(trace[s])}

\* What a render that issues an HTTP GET, a model call or a ledger write leaves
\* in its trace.
Outbound == {"get", "llm1", "llm2", "open", "write"}

\* A render of s that got past the gate (lines 105 and after).
PassesGate(s) == RenderIdle(s) \/ ClickEmptyUrl(s) \/ ClickSummarize(s)

\* C1, first half: a render whose loaded ledger has today's count of its user at
\* ARTICLE_CAP or more is refused: it shows the limit message and issues no HTTP
\* GET, no model call and no ledger write.
C1_RefusedAtCap ==
    \A s \in Sessions :
        count[s] >= ARTICLE_CAP =>
            /\ trace[s] = <<"err_cap">>
            /\ pc[s] = "idle"
            /\ Events(s) \cap Outbound = {}

\* C1, second half: once a render of user u on day d was refused, no later
\* render of u on day d gets past the gate.
C1_StaysRefused ==
    [][\A s \in Sessions : PassesGate(s) => <<uid'[s], today>> \notin refusedOn]_vars

\* C1: the quota gate refuses at the cap, and for the rest of the day.
C1_QuotaGate == []C1_RefusedAtCap /\ C1_StaysRefused

\* C2: for every user and day the count the ledger file holds never decreases:
\* it is never below a count the file held before.
C2_CountsNeverDecrease ==
    file.kind = "json" =>
        \A u \in Users, d \in Days : Get(load_usage_log(file), u, d) >= hi[u][d]

\* C3: on a ledger loaded with no entry for user u, after n increment_usage
\* calls for u today check_usage_limit gives n, and the count of u for every
\* day is the number of calls made on that day (0 for a day with none).
C3_Counting ==
    \A u \in Users :
        u \notin DOMAIN snap[1] =>
            /\ check_usage_limit(u, usage_log[1]) = done[u][today]
            /\ \A d \in Days : Get(usage_log[1], u, d) = done[u][d]

\* C3's case: a user with no entry at the load, two calls or more today and
\* none on another day, beside another user's entries.
C3_CountedTwice ==
    \E u \in Users :
        /\ u \notin DOMAIN snap[1]
        /\ snap[1] # EmptyLog
        /\ done[u][today] >= 2
        /\ \E d \in Days : d # today /\ done[u][d] = 0

\* C4: the file never holds more for a user and day than the recordUse calls
\* that returned for them; it can hold fewer (C4_LostUpdate).
C4_NoMoreThanRecorded ==
    file.kind = "json" =>
        \A u \in Users, d \in Days : Get(load_usage_log(file), u, d) <= done[u][d]

PersistedTotal ==
    SumOver(Users \X Days, [p \in Users \X Days |-> Get(load_usage_log(file), p[1], p[2])])

\* C4's case: both sessions loaded the same ledger, each before the other
\* persisted, both recordUse calls returned, and the file holds one increment.
C4_LostUpdate ==
    /\ \A s \in Sessions : pc[s] = "idle" /\ "success" \in Events(s)
    /\ snap[1] = snap[2]
    /\ file.kind = "json"
    /\ Total(done) = 2
    /\ PersistedTotal = 1

SoloFault == Events(1) \cap {"err_key", "exc_load", "err_fetch", "exc"} # {}

Last(t) == t[Len(t)]

IsPrefix(t, full) == Len(t) <= Len(full) /\ SubSeq(full, 1, Len(t)) = t

\* A render that summarized, recorded and confirmed, start to end.
FullRender ==
    <<"get", "llm1", "llm2", "summary", "bullets", "inc", "open", "write", "success">>

\* The ledger object of s is the loaded ledger with one more for (u, d), and
\* nothing else changed.
GainedOne(s, u, d) ==
    \A v \in Users, e \in Days :
        Get(usage_log[s], v, e) =
            Get(snap[s], v, e) + (IF v = u /\ e = d THEN 1 ELSE 0)

\* C6: after summarize_article returned, the render displays the summary and
\* the bullet points, then records one use for the session's user, then
\* displays the confirmation, each once and in this order: what it has done is
\* always a start of that sequence (cut short only by an exception), a render
\* that ends without an exception has done all of it, and the confirmation is
\* displayed only after the ledger with the one use more was written.
C6_SuccessSequence ==
    \A s \in Sessions :
        result[s] = "ok" =>
            /\ IsPrefix(IF Last(trace[s]) = "exc"
                        THEN SubSeq(trace[s], 1, Len(trace[s]) - 1)
                        ELSE trace[s], FullRender)
            /\ (pc[s] = "idle" /\ Last(trace[s]) # "exc") => trace[s] = FullRender
            /\ "success" \in Events(s) =>
                /\ trace[s] = FullRender
                /\ \E d \in Days : GainedOne(s, uid[s], d) /\ done[uid[s]][d] >= 1

\* C6's case: a render that went through the whole sequence.
C6_Confirmed ==
    \E s \in Sessions : pc[s] = "idle" /\ result[s] = "ok" /\ trace[s] = FullRender

\* C7: when fetch_article_from_url gives None or an empty text the render
\* shows the error and ends: one GET, no model call, the ledger object as it
\* was loaded, and the step leaves the file as it is.
C7_FetchFailure ==
    /\ [](\A s \in Sessions :
            article_text[s] \in {"none", "empty"} =>
                /\ trace[s] = <<"get", "err_fetch">>
                /\ pc[s] = "idle"
                /\ result[s] = "unset"
                /\ usage_log[s] = snap[s])
    /\ [][\A s \in Sessions :
            (article_text[s] = "unset" /\ article_text'[s] \in {"none", "empty"})
                => (file' = file /\ done' = done)]_vars

\* C7's case: a fetch that failed, of a session whose user has a count.
C7_FetchFailed ==
    \E s \in Sessions :
        /\ article_text[s] = "none"
        /\ file.kind = "json"
        /\ count[s] = 1

\* C8: when a model call of summarize_article raises, neither the summary nor
\* the bullet points are displayed, the ledger object is as it was loaded, no
\* write is issued, the render ends with the exception shown, and the step
\* leaves the file as it is.
C8_PipelineFailure ==
    /\ [](\A s \in Sessions :
            result[s] = "raised" =>
                /\ Events(s) \cap {"summary", "bullets", "success", "inc", "open", "write"} = {}
                /\ Last(trace[s]) = "exc"
                /\ pc[s] = "idle"
                /\ usage_log[s] = snap[s])
    /\ [][\A s \in Sessions :
            (result[s] = "unset" /\ result'[s] = "raised")
                => (file' = file /\ done' = done)]_vars

\* C8's case: stage 1 returned and stage 2 raised.
C8_Stage2Raised ==
    \E s \in Sessions :
        /\ result[s] = "raised"
        /\ "llm2" \in Events(s)
        /\ file.kind = "json"

\* C9: a click with the URL field empty shows the warning and ends the render:
\* no GET, no model call, the ledger object as it was loaded, and the step
\* leaves the file as it is.
C9_EmptyUrl ==
    /\ [](\A s \in Sessions :
            (clicked[s] /\ url[s] = "") =>
                /\ trace[s] = <<"warn">>
                /\ pc[s] = "idle"
                /\ usage_log[s] = snap[s])
    /\ [][\A s \in Sessions :
            ClickEmptyUrl(s) => (file' = file /\ done' = done)]_vars

\* C9's case: the click of a user who has a count in the file.
C9_EmptyUrlClicked ==
    \E s \in Sessions :
        /\ clicked[s]
        /\ url[s] = ""
        /\ count[s] = 1
        /\ file.kind = "json"

\* C10: a call of increment_usage for u adds exactly 1 to the count of
\* (u, today) in the ledger object, changes no other count, and at its return
\* the file holds exactly that ledger object.
C10_RecordUse ==
    [][\A u \in Users :
        done' = Bump(done, u, today) =>
            /\ \A v \in Users, d \in Days :
                Get(usage_log'[1], v, d) =
                    Get(usage_log[1], v, d) + (IF v = u /\ d = today THEN 1 ELSE 0)
            /\ DOMAIN usage_log'[1] = DOMAIN usage_log[1] \cup {u}
            /\ file' = JsonFile(usage_log'[1])
            /\ load_usage_log(file') = usage_log'[1]]_vars

\* C10's case: a call returned and the file holds the ledger object, with the
\* entries of both users and of two days.
C10_Persisted ==
    /\ Total(done) >= 1
    /\ file.kind = "json"
    /\ load_usage_log(file) = usage_log[1]
    /\ DOMAIN usage_log[1] = Users
    /\ \E u \in Users : Cardinality(DOMAIN usage_log[1][u]) >= 2

\* C11: when save_usage_log raises inside increment_usage (at the open or at
\* the write) the render ends there with the exception shown and without the
\* confirmation: a render that ended with the increment in its ledger object
\* either wrote it to the file or ended on the exception.
C11_PersistFailure ==
    \A s \in Sessions :
        /\ (pc[s] = "idle" /\ usage_log[s] # snap[s]) =>
                \/ "write" \in Events(s)
                \/ Last(trace[s]) = "exc" /\ "success" \notin Events(s)
        /\ ("inc" \in Events(s) /\ "exc" \in Events(s)) =>
                /\ pc[s] = "idle"
                /\ Last(trace[s]) = "exc"
                /\ Events(s) \cap {"write", "success"} = {}

\* C11's case: the write raised after the open cut the file: the render ended
\* on the exception with the increment in memory and none on disk.
C11_WriteFailed ==
    \E s \in Sessions :
        /\ pc[s] = "idle"
        /\ "open" \in Events(s)
        /\ Last(trace[s]) = "exc"
        /\ usage_log[s] # snap[s]
        /\ file.kind = "empty"

\* C12: check_usage_limit gives 0 for a user the ledger has no entry for and
\* for a user it knows but with no entry for today, and it gives a count (it
\* does not fail) on every ledger.
C12_CurrentCount ==
    [][\A u \in Users :
        LedgerCheck(u) =>
            /\ count'[1] \in Nat
            /\ u \notin DOMAIN usage_log[1] => count'[1] = 0
            /\ (u \in DOMAIN usage_log[1] /\ today \notin DOMAIN usage_log[1][u])
                    => count'[1] = 0]_vars

\* C12's case: the ledger as first loaded knows the user from an earlier day,
\* has no entry for today, and the check gave 0.
C12_ZeroForNewDay ==
    /\ done = ZeroCounts
    /\ \E u \in Users :
        /\ uid[1] = u
        /\ count[1] = 0
        /\ u \in DOMAIN usage_log[1]
        /\ today \notin DOMAIN usage_log[1][u]

\* C13: save_usage_log of a ledger (user-id strings to ISO dates to counts)
\* followed by load_usage_log gives a mapping identical to the one saved: the
\* load does not raise, and what it returns equals the ledger.
C13_RoundTrip ==
    /\ pc[1] = "saved" => ~LoadRaises(file)
    /\ pc[1] = "loaded" => snap[1] = usage_log[1]

\* C13's case: a ledger of both users, one of them with two days and a count
\* of three digits, saved over a longer file and loaded.
C13_Reloaded ==
    /\ pc[1] = "loaded"
    /\ DOMAIN snap[1] = Users
    /\ \E u \in Users :
        /\ DOMAIN snap[1][u] = Days
        /\ \E d \in Days : snap[1][u][d] = BigCount
        /\ \E d \in Days : snap[1][u][d] = 0
    /\ \E u \in Users : DOMAIN snap[1][u] = {}
    /\ file.len < TextLen(LongLedger)

\* C14: with GROQ_API_KEY missing from the secrets every script run stops at
\* line 18: all a session ever shows is the error, the ledger file is never
\* read (no user id, no count), no form is shown, and no GET, model call or
\* ledger write is made.
C14_NoKeyStops ==
    ~hasKey =>
        /\ file = Absent
        /\ done = ZeroCounts
        /\ \A s \in Sessions :
            /\ trace[s] \in {<<>>, <<"err_key">>}
            /\ pc[s] = "idle"
            /\ ~form[s]
            /\ uid[s] = ""
            /\ count[s] = -1
            /\ usage_log[s] = EmptyLog

\* C14's case: both sessions ran the script with the key missing.
C14_BothStopped ==
    /\ ~hasKey
    /\ \A s \in Sessions : trace[s] = <<"err_key">>

\* t is raw without the whitespace at its two ends, and nothing else removed.
IsTrimOf(t, raw) ==
    \E i \in 1..(Len(raw) + 1), j \in 0..Len(raw) :
        /\ t = SubSeq(raw, i, j)
        /\ \A k \in 1..(i - 1) : raw[k] \in WS
        /\ \A k \in (j + 1)..Len(raw) : raw[k] \in WS
        /\ i <= j => (raw[i] \notin WS /\ raw[j] \notin WS)
        /\ i <= j + 1

\* C15: summarize_article makes at most two model calls; the second is made
\* only after the first returned, and its prompt is the summarizer template
\* around exactly the first call's content without the whitespace at its
\* ends; nothing is returned before both calls are back, and what is returned
\* is the first content trimmed as bullet_points and the second content
\* trimmed as summary.
C15_Sequential ==
    /\ Len(llm_calls) <= 2
    /\ Len(llm_calls) = 2 =>
        /\ llm_calls[1].back
        /\ \E t \in Answers :
            /\ IsTrimOf(t, llm_calls[1].content)
            /\ llm_calls[2].prompt = summarizer_prompt(t)
    /\ ret.set =>
        /\ Len(llm_calls) = 2
        /\ llm_calls[1].back /\ llm_calls[2].back
        /\ IsTrimOf(ret.bullet_points, llm_calls[1].content)
        /\ IsTrimOf(ret.summary, llm_calls[2].content)
    /\ pc[1] \in {"idle", "wait1", "stage2", "wait2", "raised"} => ~ret.set

\* C15's case: both stages answered with whitespace at both ends of the text,
\* and summarize_article returned.
C15_BothTrimmed ==
    /\ pc[1] = "returned"
    /\ ret.set
    /\ \A i \in 1..2 :
        /\ Len(llm_calls[i].content) = MaxText
        /\ llm_calls[i].content[1] \in WS
        /\ llm_calls[i].content[MaxText] \in WS
    /\ Len(ret.bullet_points) = MaxText - 2
    /\ Len(ret.summary) = MaxText - 2

\* What the fetcher is to give for the paragraph texts ps: None when there
\* are none, otherwise their newline-join without the whitespace at its ends.
GivesFor(ps) ==
    IF Len(ps) = 0 THEN fetched = None
    ELSE fetched.is = "str" /\ IsTrimOf(fetched.text, join(ps))

FirstWith(doc, i, tag) == doc[i].tag = tag /\ \A j \in 1..(i - 1) : doc[j].tag # tag

\* The fetcher's result for the page: the paragraphs inside the first
\* <article>, else inside the first <main>, else of the whole page.
GivesForPage(doc) ==
    \/ \E i \in DOMAIN doc : FirstWith(doc, i, "article") /\ GivesFor(doc[i].ps)
    \/ /\ ~Has(doc, "article")
       /\ \E i \in DOMAIN doc : FirstWith(doc, i, "main") /\ GivesFor(doc[i].ps)
    \/ /\ ~Has(doc, "article")
       /\ ~Has(doc, "main")
       /\ GivesFor(find_all_p(doc))

\* The fetcher's result when the statuses for which refused holds, and a
\* network error, give None.
FetcherGives(refused) ==
    pc[1] = "fetched" =>
        IF response.kind = "error" \/ refused THEN fetched = None
        ELSE GivesForPage(response.doc)

\* C16 as amended: None on a network error and on a status from 400 to 599;
\* for every other final response the trimmed newline-join of the paragraph
\* texts of the primary container (of the whole page when there is none), and
\* None when there are no such paragraphs.
C16_FetcherResult == FetcherGives(response.status >= 400 /\ response.status < 600)

\* C16 as stated: None on a network error and on every status that is not 2xx.
C16_NonOkIsNone == FetcherGives(response.status < 200 \/ response.status >= 300)

\* C16's case: a <main> with a paragraph, then an <article> with "A" and
\* " B ": the fetcher gives "A\n B".
C16_ArticleJoined ==
    /\ pc[1] = "fetched"
    /\ response.kind = "http"
    /\ response.status = 200
    /\ Len(response.doc) = 2
    /\ response.doc[1].tag = "main"
    /\ Len(response.doc[1].ps) > 0
    /\ response.doc[2] = [tag |-> "article", ps |-> <<<<"A">>, <<" ", "B", " ">>>>]
    /\ fetched = Str(<<"A", "\n", " ", "B">>)

\* C17: under every interleaving of the sessions the count the ledger file
\* holds for a user and day is at most ARTICLE_CAP, and so is every count of
\* a render's ledger object: a render increments only past the gate, where
\* the count it loaded was below ARTICLE_CAP.
C17_PersistedWithinCap ==
    /\ file.kind = "json" =>
        \A u \in Users, d \in Days : Get(load_usage_log(file), u, d) <= ARTICLE_CAP
    /\ \A s \in Sessions, u \in Users, d \in Days :
        Get(usage_log[s], u, d) <= ARTICLE_CAP

\* C17's case: more than ARTICLE_CAP summarizations of one user and day were
\* recorded, by sessions that loaded the same count, and the file holds
\* ARTICLE_CAP for them.
C17_OverrunAtCap ==
    /\ file.kind = "json"
    /\ \E u \in Users, d \in Days :
        /\ done[u][d] > ARTICLE_CAP
        /\ Get(load_usage_log(file), u, d) = ARTICLE_CAP

\* C18 as amended: increment_usage credits the use to the day that is current
\* when it runs (its own date.today(), line 64), which is the day of the
\* render's quota check or a later one: the step adds 1 for (user, today) to
\* the ledger object and changes no other count.
C18_CreditedToday ==
    [][\A s \in Sessions :
        (RecordOpen(s) \/ RecordOpenFail(s)) =>
            /\ checked_day[s] >= 1
            /\ checked_day[s] <= today
            /\ \A v \in Users, e \in Days :
                Get(usage_log'[s], v, e) =
                    Get(usage_log[s], v, e) + (IF v = uid[s] /\ e = today THEN 1 ELSE 0)]_vars

\* C18 as stated: the use a render recorded is credited to the day whose count
\* its quota check read.
C18_SameDay ==
    \A s \in Sessions : pc[s] = "write" => CreditedDay(s) = checked_day[s]

\* C18's case: the date changed between the check and increment_usage, and the
\* use went to the new day.
C18_CreditedNextDay ==
    \E s \in Sessions :
        /\ pc[s] = "write"
        /\ checked_day[s] >= 1
        /\ CreditedDay(s) = checked_day[s] + 1
        /\ Get(usage_log[s], uid[s], checked_day[s]) = count[s]

====
